---- MODULE Spec2Model ----
(***************************************************************************)
(* Model of the local message pipeline: the outbox file, the consumer      *)
(* offset file and the SQLite message table of common/storage.py, the      *)
(* producer entry points (Producer/producer_stub.py, Web/script1.py) and   *)
(* the consumer driver (Consumer/consumer_stub.py).                        *)
(***************************************************************************)
EXTENDS Integers, Sequences, FiniteSets, TLC

\* ------------------------------------------------------------------ bounds
MaxLines == 3        \* lines ever written to the outbox file
MaxRows == 4         \* rows ever inserted into the messages table
MaxBatch == 1        \* largest --batch-size argument tried
MaxUuid == 4         \* uuid4() values drawn
MaxCalls == 2        \* direct storage-API calls made besides the scripts
MaxCrashes == 1      \* kills of the consumer process, where they are counted

\* ------------------------------------------------------------ input values
ConsumerNames == {"consumer-stub", "c2"}
\* message_id arguments: None is written "", "  " is whitespace only
IdInputs == {" a", " ", ""}
ContentInputs == {" x", " "}
OffsetInputs == {-1, 2}
\* payloads handed directly to append_outbox_message / insert_message_from_payload
InvalidPayloads ==
    { [message_id |-> " ", content |-> "x"],
      [message_id |-> "b", content |-> ""] }
PayloadInputs ==
    { [message_id |-> " a", content |-> "x"],
      [message_id |-> "b", content |-> " x"] } \cup InvalidPayloads
\* the consumer names the driver is run for; the offset file is also written
\* for the other names
RunNames == {"consumer-stub"}

Max(a, b) == IF a >= b THEN a ELSE b
Min(a, b) == IF a <= b THEN a ELSE b

\* str.strip() on the strings used here
Strip(s) ==
    CASE s = " " -> ""
      [] s = " a" -> "a"
      [] s = " x" -> "x"
      [] OTHER -> s

\* the n-th value returned by uuid.uuid4()
Uuid(n) == "u" \o ToString(n)

VARIABLES
    outboxExists,   \* OUTBOX_PATH.exists()
    outbox,         \* the lines of local_outbox.jsonl
    stateFile,      \* consumer_state.json
    rows,           \* table messages, in id order
    uuids,          \* number of uuid4() values drawn so far
    run,            \* the consumer_stub.main process: position and locals
    ret,            \* the last completed call and what it returned
    calls,          \* direct storage-API calls made so far
    crashes         \* counted kills of the consumer process

vars == <<outboxExists, outbox, stateFile, rows, uuids, run, ret, calls, crashes>>

\* ------------------------------------------------------------- outbox file
BlankLine == [kind |-> "blank"]
GarbageLine == [kind |-> "garbage"]
\* json.dumps(envelope, sort_keys=True) + "\n"
EncodeLine(envelope) == [kind |-> "json", obj |-> envelope]

NewEnvelope(payload, source, n) ==
    [transport_id |-> Uuid(n), source |-> source, payload |-> payload]

\* variant: the file is opened with "w"
AppendLineTruncate(file, line) == <<line>>

\* open("a") and write: the line goes after the lines already there
AppendLine(file, line) == Append(file, line)

\* append_outbox_message: the file after the call
AppendOutboxMessage(file, payload, source, n) ==
    AppendLine(file, EncodeLine(NewEnvelope(payload, source, n)))

\* variant: the line at start_line itself is not skipped
RECURSIVE NextYieldInclusive(_, _, _, _)
NextYieldInclusive(exists, file, start_line, pos) ==
    IF ~exists \/ pos >= Len(file)
    THEN [what |-> "stop", line_number |-> pos]
    ELSE LET line_number == pos + 1
             line == file[line_number]
         IN IF line_number < start_line THEN NextYieldInclusive(exists, file, start_line, line_number)
            ELSE IF line.kind = "blank" THEN NextYieldInclusive(exists, file, start_line, line_number)
            ELSE IF line.kind = "garbage" THEN [what |-> "raise", line_number |-> line_number]
            ELSE [what |-> "yield", line_number |-> line_number, envelope |-> line.obj]

\* variant: a line that does not decode is skipped like a blank line
RECURSIVE NextYieldSkipGarbage(_, _, _, _)
NextYieldSkipGarbage(exists, file, start_line, pos) ==
    IF ~exists \/ pos >= Len(file)
    THEN [what |-> "stop", line_number |-> pos]
    ELSE LET line_number == pos + 1
             line == file[line_number]
         IN IF line_number <= start_line THEN NextYieldSkipGarbage(exists, file, start_line, line_number)
            ELSE IF line.kind \in {"blank", "garbage"}
                 THEN NextYieldSkipGarbage(exists, file, start_line, line_number)
            ELSE [what |-> "yield", line_number |-> line_number, envelope |-> line.obj]

\* One resumption of the generator iter_outbox_from_line whose file position
\* is after line pos: the next thing it does.
RECURSIVE NextYield(_, _, _, _)
NextYield(exists, file, start_line, pos) ==
    IF ~exists \/ pos >= Len(file)
    THEN [what |-> "stop", line_number |-> pos]
    ELSE LET line_number == pos + 1
             line == file[line_number]
         IN IF line_number <= start_line THEN NextYield(exists, file, start_line, line_number)
            ELSE IF line.kind = "blank" THEN NextYield(exists, file, start_line, line_number)
            ELSE IF line.kind = "garbage" THEN [what |-> "raise", line_number |-> line_number]
            ELSE [what |-> "yield", line_number |-> line_number, envelope |-> line.obj]

\* list(iter_outbox_from_line(start_line)) on a file that does not change:
\* the pairs yielded, and whether the iteration ended with ValueError
RECURSIVE IterFrom(_, _, _, _)
IterFrom(exists, file, start_line, pos) ==
    LET n == NextYield(exists, file, start_line, pos)
    IN IF n.what = "stop" THEN [entries |-> <<>>, error |-> 0]
       ELSE IF n.what = "raise" THEN [entries |-> <<>>, error |-> n.line_number]
       ELSE LET rest == IterFrom(exists, file, start_line, n.line_number)
            IN [entries |-> <<[line_number |-> n.line_number, envelope |-> n.envelope]>> \o rest.entries,
                error |-> rest.error]

IterOutboxFromLine(exists, file, start_line) == IterFrom(exists, file, start_line, 0)

\* count_outbox_lines
CountOutboxLines(exists, file) ==
    IF ~exists THEN 0 ELSE Cardinality({i \in 1..Len(file) : file[i].kind # "blank"})

\* ------------------------------------------------------------- offset file
EmptyMap == [n \in {} |-> 0]
MissingFile == [kind |-> "missing", data |-> EmptyMap]
CorruptFile == [kind |-> "corrupt", data |-> EmptyMap]

LoadConsumerStateMap(f) == IF f.kind = "json" THEN f.data ELSE EmptyMap

GetConsumerOffset(f, consumer_name) ==
    LET state == LoadConsumerStateMap(f)
    IN IF consumer_name \in DOMAIN state THEN state[consumer_name] ELSE 0

\* variants of max(0, int(last_line))
ClampAbs(last_line) == IF last_line < 0 THEN 0 - last_line ELSE last_line
ClampNone(last_line) == last_line

Clamp(last_line) == Max(0, last_line)

\* variant: the map is not loaded before it is rewritten
SetConsumerOffsetFresh(f, consumer_name, last_line) ==
    [kind |-> "json", data |-> [n \in {consumer_name} |-> Clamp(last_line)]]

SetConsumerOffset(f, consumer_name, last_line) ==
    LET state == LoadConsumerStateMap(f)
    IN [kind |-> "json",
        data |-> [n \in (DOMAIN state) \cup {consumer_name} |->
                     IF n = consumer_name THEN Clamp(last_line) ELSE state[n]]]

\* ----------------------------------------------------------- message table
\* the validation of insert_message_from_payload: "" when the payload passes
\* variant: the fields are tested before they are stripped
InsertErrorUnstripped(payload) ==
    IF payload.message_id = "" THEN "message_id"
    ELSE IF payload.content = "" THEN "content"
    ELSE ""

InsertError(payload) ==
    IF Strip(payload.message_id) = "" THEN "message_id"
    ELSE IF Strip(payload.content) = "" THEN "content"
    ELSE ""

\* variant: only the most recent row is compared
DuplicateExistsLast(table, message_id) ==
    Len(table) > 0 /\ table[Len(table)].message_id = message_id

DuplicateExists(table, message_id) ==
    \E i \in 1..Len(table) : table[i].message_id = message_id

LastRowId(table) == IF Len(table) = 0 THEN 1 ELSE table[Len(table)].id + 1

\* variant: a row is flagged only when its message_id is in the row before it
NewRowFlagAdjacent(table, payload, transport_id, source) ==
    [id |-> LastRowId(table),
     message_id |-> Strip(payload.message_id),
     message_content |-> Strip(payload.content),
     is_duplicate |-> IF DuplicateExistsLast(table, Strip(payload.message_id)) THEN 1 ELSE 0,
     transport_id |-> transport_id,
     source |-> source]

NewRow(table, payload, transport_id, source) ==
    [id |-> LastRowId(table),
     message_id |-> Strip(payload.message_id),
     message_content |-> Strip(payload.content),
     is_duplicate |-> IF DuplicateExists(table, Strip(payload.message_id)) THEN 1 ELSE 0,
     transport_id |-> transport_id,
     source |-> source]

\* variant: INSERT OR REPLACE keyed on message_id, the earlier row is overwritten
InsertMessageFromPayloadUpsert(table, payload, transport_id, source) ==
    IF DuplicateExists(table, Strip(payload.message_id))
    THEN [i \in 1..Len(table) |->
             IF table[i].message_id = Strip(payload.message_id)
             THEN [table[i] EXCEPT !.is_duplicate = 1, !.transport_id = transport_id]
             ELSE table[i]]
    ELSE Append(table, NewRow(table, payload, transport_id, source))

\* the table after a successful insert_message_from_payload
InsertMessageFromPayload(table, payload, transport_id, source) ==
    Append(table, NewRow(table, payload, transport_id, source))

\* variant: COUNT(is_duplicate) in place of SUM(is_duplicate)
SumDupCount(table) == Len(table)

RECURSIVE SumDup(_)
SumDup(table) ==
    IF Len(table) = 0 THEN 0 ELSE table[1].is_duplicate + SumDup(Tail(table))

\* variant: COUNT(DISTINCT message_id) in place of COUNT(*)
GetSummaryDistinct(exists, file, table) ==
    [outbox_count |-> CountOutboxLines(exists, file),
     db_total |-> Cardinality({table[i].message_id : i \in 1..Len(table)}),
     db_duplicates |-> SumDup(table)]

GetSummary(exists, file, table) ==
    [outbox_count |-> CountOutboxLines(exists, file),
     db_total |-> Len(table),
     db_duplicates |-> SumDup(table)]

\* ------------------------------------------------------------ fetch_messages
\* the characters of the strings stored in message_id, message_content and
\* source; a NULL source ("none") is COALESCEd to the empty string
Letters(s) ==
    CASE s = "a" -> {"a"}
      [] s = "b" -> {"b"}
      [] s = "x" -> {"x"}
      [] s = "producer-script" -> {"p", "r", "o", "d", "u", "c", "e", "-", "s", "i", "t"}
      [] s = "web-sender" -> {"w", "e", "b", "-", "s", "n", "d", "r"}
      [] s = "local-script" -> {"l", "o", "c", "a", "-", "s", "r", "i", "p", "t"}
      [] s = "none" -> {}
      [] OTHER -> {"u"} \cup {ToString(n) : n \in {m \in 1..(MaxUuid + 1) : Uuid(m) = s}}

\* LIKE does not distinguish the case of ASCII letters
Lower(s) == CASE s = "U" -> "u" [] s = "A" -> "a" [] OTHER -> s

\* text LIKE '%term%' for a term of one character
Like(text, term) == Lower(term) \in Letters(text)

\* the place of a message_id in the BINARY collation
IdRank(message_id) ==
    CASE message_id = "a" -> 1
      [] message_id = "b" -> 2
      [] OTHER -> 2 + (CHOOSE n \in 0..(MaxUuid + 1) : n = 0 \/ Uuid(n) = message_id)

\* published_at is the time create_payload ran: the place of the row's entry
\* in the outbox, for the rows a consumer inserted from produced lines; 0 for others
PublishedAt(r) ==
    LET lines == {ln \in 1..Len(outbox) :
                     outbox[ln].kind = "json" /\ outbox[ln].obj.transport_id = r.transport_id}
    IN IF lines = {} THEN 0 ELSE CHOOSE ln \in lines : TRUE

\* SORT_OPTIONS: q is placed before r; received_at does not decrease with id,
\* an unknown key sorts as received_desc
SortBefore(q, r, sort_key) ==
    CASE sort_key = "received_asc" -> q.id < r.id
      [] sort_key = "published_desc" ->
            \/ PublishedAt(q) > PublishedAt(r)
            \/ PublishedAt(q) = PublishedAt(r) /\ q.id > r.id
      [] sort_key = "message_id_asc" ->
            \/ IdRank(q.message_id) < IdRank(r.message_id)
            \/ IdRank(q.message_id) = IdRank(r.message_id) /\ q.id < r.id
      [] sort_key = "duplicate_first" ->
            \/ q.is_duplicate > r.is_duplicate
            \/ q.is_duplicate = r.is_duplicate /\ q.id > r.id
      [] OTHER -> q.id > r.id

\* variant: the elif branch for "exclude" is missing
DuplicateConditionOnly(r, duplicate_filter) ==
    duplicate_filter = "only" => r.is_duplicate = 1

\* lines 244-247: the condition on is_duplicate
DuplicateCondition(r, duplicate_filter) ==
    CASE duplicate_filter = "only" -> r.is_duplicate = 1
      [] duplicate_filter = "exclude" -> r.is_duplicate = 0
      [] OTHER -> TRUE

\* lines 249-253: the condition on the search term
SearchCondition(r, search) ==
    LET search_term == Strip(search)
    IN search_term # "" =>
          \/ Like(r.message_id, search_term)
          \/ Like(r.message_content, search_term)
          \/ Like(r.source, search_term)

\* the list fetch_messages returns: the selected rows in ORDER BY order, with
\* is_duplicate converted by bool()
FetchMessages(table, sort_key, duplicate_filter, search) ==
    LET selected == {i \in 1..Len(table) :
                        DuplicateCondition(table[i], duplicate_filter)
                            /\ SearchCondition(table[i], search)}
        ahead(i) == Cardinality({j \in selected : SortBefore(table[j], table[i], sort_key)})
        item(i) == [id |-> table[i].id,
                    message_id |-> table[i].message_id,
                    message_content |-> table[i].message_content,
                    is_duplicate |-> table[i].is_duplicate # 0,
                    transport_id |-> table[i].transport_id,
                    source |-> table[i].source]
    IN [k \in 1..Cardinality(selected) |-> item(CHOOSE i \in selected : ahead(i) = k - 1)]

\* -------------------------------------------------------------- create_payload
\* "" for message_id stands for None: a fresh uuid4 is used
\* variant: the content is tested before it is stripped
CreatePayloadErrorUnstripped(content, message_id) ==
    IF content = "" THEN "content"
    ELSE IF message_id # "" /\ Strip(message_id) = "" THEN "message_id"
    ELSE ""

CreatePayloadError(content, message_id) ==
    IF Strip(content) = "" THEN "content"
    ELSE IF message_id # "" /\ Strip(message_id) = "" THEN "message_id"
    ELSE ""

CreatePayload(content, message_id, n) ==
    [message_id |-> IF message_id = "" THEN Strip(Uuid(n)) ELSE Strip(message_id),
     content |-> Strip(content)]

\* ------------------------------------------------------------ initial state
NoEnvelope == [transport_id |-> "", source |-> "", payload |-> [message_id |-> "", content |-> ""]]

\* what a run has printed about its outcome: the ValueError message on stderr
\* (failure) and the count of the "Processed N message(s)" line on stdout,
\* -1 while that line has not been printed
NoReport == [failure |-> "", count |-> -1]

\* consumer_stub.main not running
IdleRun ==
    [pc |-> "idle", consumer_name |-> "consumer-stub", batch_size |-> 0, reset_offset |-> FALSE,
     current_offset |-> 0, latest_offset |-> 0, processed |-> 0, duplicates |-> 0,
     pos |-> 0, line_number |-> 0, envelope |-> NoEnvelope, is_duplicate |-> 0,
     stopped |-> "", follows |-> "", before |-> 0, after |-> 0, len0 |-> 0, calls0 |-> 0,
     report |-> NoReport]

NoRet == [op |-> "none"]

Init ==
    /\ outboxExists \in BOOLEAN
    /\ outbox = <<>>
    /\ stateFile \in {MissingFile, CorruptFile}
    /\ rows = <<>>
    /\ uuids = 0
    /\ run = IdleRun
    /\ ret = NoRet
    /\ calls = 0
    /\ crashes = 0

\* ---------------------------------------------------------------- producers
\* producer_stub.main / script1.sender: create_payload, then append_outbox_message
Produce(content, message_id, source) ==
    /\ Len(outbox) < MaxLines
    /\ IF CreatePayloadError(content, message_id) # ""
       THEN UNCHANGED <<outboxExists, outbox, uuids>>
       ELSE LET drawn == IF message_id = "" THEN 1 ELSE 0
                payload == CreatePayload(content, message_id, uuids + 1)
            IN /\ uuids + drawn + 1 <= MaxUuid
               /\ outbox' = AppendOutboxMessage(outbox, payload, source, uuids + drawn + 1)
               /\ outboxExists' = TRUE
               /\ uuids' = uuids + drawn + 1
    /\ ret' = NoRet
    /\ UNCHANGED <<stateFile, rows, run, calls, crashes>>

\* create_payload called with the given arguments and, when it returns, the
\* payload handed to append_outbox_message, as both callers do
\* (producer_stub.py 59-65, script1.py 66-72); the outcome is recorded
CreateCall(content, message_id, source) ==
    /\ Len(outbox) < MaxLines
    /\ IF CreatePayloadError(content, message_id) # ""
       THEN /\ ret' = [op |-> "create", content |-> content, message_id |-> message_id,
                       error |-> CreatePayloadError(content, message_id),
                       payload |-> NoEnvelope.payload]
            /\ UNCHANGED <<outboxExists, outbox, uuids>>
       ELSE LET drawn == IF message_id = "" THEN 1 ELSE 0
                payload == CreatePayload(content, message_id, uuids + 1)
            IN /\ uuids + drawn + 1 <= MaxUuid
               /\ outbox' = AppendOutboxMessage(outbox, payload, source, uuids + drawn + 1)
               /\ outboxExists' = TRUE
               /\ uuids' = uuids + drawn + 1
               /\ ret' = [op |-> "create", content |-> content, message_id |-> message_id,
                          error |-> "", payload |-> payload]
    /\ UNCHANGED <<stateFile, rows, run, calls, crashes>>

\* a line put into the outbox file by something other than append_outbox_message
RawWrite(line) ==
    /\ Len(outbox) < MaxLines
    /\ outbox' = AppendLine(outbox, line)
    /\ outboxExists' = TRUE
    /\ ret' = NoRet
    /\ UNCHANGED <<stateFile, rows, uuids, run, calls, crashes>>

\* ------------------------------------------------------ consumer_stub.main
\* How the run before this one ended, when this run is a second run of the same
\* consumer: the earlier process returned, and since it started nothing was
\* appended to the outbox and no direct storage call was made.
Follows(r, consumer_name) ==
    IF /\ r.pc \in {"done", "failed"}
       /\ r.stopped # "status"
       /\ r.consumer_name = consumer_name
       /\ r.len0 = Len(outbox)
       /\ r.calls0 = calls
    THEN r.stopped ELSE ""

\* lines 46-66: arguments, optional reset, read the offset, print the status
Start(consumer_name, batch_size, reset_offset, status_only) ==
    /\ run.pc \in {"idle", "done", "failed"}
    /\ LET f == IF reset_offset THEN SetConsumerOffset(stateFile, consumer_name, 0) ELSE stateFile
           current_offset == GetConsumerOffset(f, consumer_name)
           summary == GetSummary(outboxExists, outbox, rows)
       IN /\ stateFile' = f
          /\ run' = [IdleRun EXCEPT !.pc = IF status_only THEN "done" ELSE "fetch",
                                    !.consumer_name = consumer_name,
                                    !.batch_size = batch_size,
                                    !.reset_offset = reset_offset,
                                    !.current_offset = current_offset,
                                    !.latest_offset = current_offset,
                                    !.stopped = IF status_only THEN "status" ELSE "",
                                    !.follows = Follows(run, consumer_name),
                                    !.before = summary.db_total,
                                    !.after = summary.db_total,
                                    !.len0 = Len(outbox),
                                    !.calls0 = calls]
    /\ ret' = NoRet
    /\ UNCHANGED <<outboxExists, outbox, rows, uuids, calls, crashes>>

\* variant: the batch-size test is processed > batch_size
FetchPastCap ==
    /\ run.pc = "fetch"
    /\ LET n == NextYield(outboxExists, outbox, run.current_offset, run.pos)
       IN run' = IF n.what = "stop"
                 THEN [run EXCEPT !.pc = "finish", !.stopped = "exhausted", !.pos = n.line_number]
                 ELSE IF n.what = "raise"
                 THEN [run EXCEPT !.pc = "failed", !.stopped = "json", !.pos = n.line_number,
                                  !.line_number = n.line_number, !.envelope = NoEnvelope,
                                  !.report = [failure |-> "json", count |-> -1]]
                 ELSE IF run.batch_size # 0 /\ run.processed > run.batch_size
                 THEN [run EXCEPT !.pc = "finish", !.stopped = "break", !.pos = n.line_number,
                                  !.line_number = 0, !.envelope = NoEnvelope]
                 ELSE [run EXCEPT !.pc = "insert", !.pos = n.line_number,
                                  !.line_number = n.line_number, !.envelope = n.envelope]
    /\ ret' = NoRet
    /\ UNCHANGED <<outboxExists, outbox, stateFile, rows, uuids, calls, crashes>>

\* lines 69-71: resume the generator, then the batch-size test
Fetch ==
    /\ run.pc = "fetch"
    /\ LET n == NextYield(outboxExists, outbox, run.current_offset, run.pos)
       IN run' = IF n.what = "stop"
                 THEN [run EXCEPT !.pc = "finish", !.stopped = "exhausted", !.pos = n.line_number]
                 ELSE IF n.what = "raise"
                 THEN [run EXCEPT !.pc = "failed", !.stopped = "json", !.pos = n.line_number,
                                  !.line_number = n.line_number, !.envelope = NoEnvelope,
                                  !.report = [failure |-> "json", count |-> -1]]
                 ELSE IF run.batch_size # 0 /\ run.processed >= run.batch_size
                 THEN [run EXCEPT !.pc = "finish", !.stopped = "break", !.pos = n.line_number,
                                  !.line_number = 0, !.envelope = NoEnvelope]
                 ELSE [run EXCEPT !.pc = "insert", !.pos = n.line_number,
                                  !.line_number = n.line_number, !.envelope = n.envelope]
    /\ ret' = NoRet
    /\ UNCHANGED <<outboxExists, outbox, stateFile, rows, uuids, calls, crashes>>

\* lines 73-79: insert_message_from_payload, ValueError ends the run
Insert ==
    /\ run.pc = "insert"
    /\ LET payload == run.envelope.payload
       IN IF InsertError(payload) # ""
          THEN /\ run' = [run EXCEPT !.pc = "failed", !.stopped = InsertError(payload),
                                     !.report = [failure |-> InsertError(payload), count |-> -1]]
               /\ rows' = rows
          ELSE /\ Len(rows) < MaxRows
               /\ rows' = InsertMessageFromPayload(rows, payload, run.envelope.transport_id,
                                                   run.envelope.source)
               /\ run' = [run EXCEPT !.pc = "advance",
                                     !.is_duplicate = rows'[Len(rows')].is_duplicate]
    /\ ret' = NoRet
    /\ UNCHANGED <<outboxExists, outbox, stateFile, uuids, calls, crashes>>

\* variant: the offset written is the number of lines the outbox holds by then
AdvanceToEnd ==
    /\ run.pc = "advance"
    /\ stateFile' = SetConsumerOffset(stateFile, run.consumer_name, Len(outbox))
    /\ run' = [run EXCEPT !.pc = "fetch",
                          !.latest_offset = Len(outbox),
                          !.processed = run.processed + 1,
                          !.duplicates = run.duplicates + run.is_duplicate,
                          !.is_duplicate = 0]
    /\ ret' = NoRet
    /\ UNCHANGED <<outboxExists, outbox, rows, uuids, calls, crashes>>

\* variant: the offset is kept in latest_offset and not written per entry
AdvanceBatched ==
    /\ run.pc = "advance"
    /\ stateFile' = stateFile
    /\ run' = [run EXCEPT !.pc = "fetch",
                          !.latest_offset = run.line_number,
                          !.processed = run.processed + 1,
                          !.duplicates = run.duplicates + run.is_duplicate,
                          !.is_duplicate = 0]
    /\ ret' = NoRet
    /\ UNCHANGED <<outboxExists, outbox, rows, uuids, calls, crashes>>

\* variant: the offset written is one past the entry's line
AdvanceSkip ==
    /\ run.pc = "advance"
    /\ stateFile' = SetConsumerOffset(stateFile, run.consumer_name, run.line_number + 1)
    /\ run' = [run EXCEPT !.pc = "fetch",
                          !.latest_offset = run.line_number + 1,
                          !.processed = run.processed + 1,
                          !.duplicates = run.duplicates + run.is_duplicate,
                          !.is_duplicate = 0]
    /\ ret' = NoRet
    /\ UNCHANGED <<outboxExists, outbox, rows, uuids, calls, crashes>>

\* lines 80-85: persist the offset, count
Advance ==
    /\ run.pc = "advance"
    /\ stateFile' = SetConsumerOffset(stateFile, run.consumer_name, run.line_number)
    /\ run' = [run EXCEPT !.pc = "fetch",
                          !.latest_offset = run.line_number,
                          !.processed = run.processed + 1,
                          !.duplicates = run.duplicates + run.is_duplicate,
                          !.is_duplicate = 0]
    /\ ret' = NoRet
    /\ UNCHANGED <<outboxExists, outbox, rows, uuids, calls, crashes>>

\* lines 96-109: the report
Finish ==
    /\ run.pc = "finish"
    /\ run' = [run EXCEPT !.pc = "done", !.pos = 0,
                          !.after = GetSummary(outboxExists, outbox, rows).db_total,
                          !.report = [failure |-> "", count |-> run.processed]]
    /\ ret' = NoRet
    /\ UNCHANGED <<outboxExists, outbox, stateFile, rows, uuids, calls, crashes>>

\* the process is killed between two steps
Crash(counted) ==
    /\ run.pc \in {"fetch", "insert", "advance", "finish"}
    /\ run' = IdleRun
    /\ ret' = NoRet
    /\ IF counted
       THEN crashes < MaxCrashes /\ crashes' = crashes + 1
       ELSE crashes' = crashes
    /\ UNCHANGED <<outboxExists, outbox, stateFile, rows, uuids, calls>>

\* ------------------------------------------------- direct storage-API calls
AppendCall(payload) ==
    /\ Len(outbox) < MaxLines
    /\ uuids + 1 <= MaxUuid
    /\ outbox' = AppendOutboxMessage(outbox, payload, "local-script", uuids + 1)
    /\ outboxExists' = TRUE
    /\ uuids' = uuids + 1
    /\ ret' = [op |-> "append", envelope |-> NewEnvelope(payload, "local-script", uuids + 1)]
    /\ UNCHANGED <<stateFile, rows, run, calls, crashes>>

\* the /viewer route: the query arguments, fetch_messages, the rendered list
Viewer(sort_key, duplicate_filter, search) ==
    /\ ret' = [op |-> "fetch", sort_key |-> sort_key, duplicate_filter |-> duplicate_filter,
               search |-> Strip(search),
               messages |-> FetchMessages(rows, sort_key, duplicate_filter, Strip(search))]
    /\ UNCHANGED <<outboxExists, outbox, stateFile, rows, uuids, run, calls, crashes>>

\* another writer of the table or of the offset file acts only while no consumer
\* process runs (one writer per resource at a time)
NoRunInProgress == run.pc \in {"idle", "done", "failed"}

InsertCall(payload) ==
    /\ NoRunInProgress
    /\ calls < MaxCalls
    /\ calls' = calls + 1
    /\ IF InsertError(payload) # ""
       THEN /\ ret' = [op |-> "insert", error |-> InsertError(payload), payload |-> payload]
            /\ rows' = rows
       ELSE /\ Len(rows) < MaxRows
            /\ rows' = InsertMessageFromPayload(rows, payload, "none", "none")
            /\ ret' = [op |-> "insert", error |-> "", payload |-> payload]
    /\ UNCHANGED <<outboxExists, outbox, stateFile, uuids, run, crashes>>

SetOffsetCall(consumer_name, last_line) ==
    /\ NoRunInProgress
    /\ calls < MaxCalls
    /\ calls' = calls + 1
    /\ stateFile' = SetConsumerOffset(stateFile, consumer_name, last_line)
    /\ ret' = [op |-> "set", consumer_name |-> consumer_name, last_line |-> last_line]
    /\ UNCHANGED <<outboxExists, outbox, rows, uuids, run, crashes>>

GetOffsetCall(consumer_name) ==
    /\ calls < MaxCalls
    /\ calls' = calls + 1
    /\ ret' = [op |-> "get", consumer_name |-> consumer_name,
               value |-> GetConsumerOffset(stateFile, consumer_name),
               after |-> IF ret.op = "set" THEN ret ELSE NoRet]
    /\ UNCHANGED <<outboxExists, outbox, stateFile, rows, uuids, run, crashes>>

IterCall(start_line) ==
    /\ calls < MaxCalls
    /\ calls' = calls + 1
    /\ ret' = [op |-> "iter", start_line |-> start_line,
               result |-> IterOutboxFromLine(outboxExists, outbox, start_line)]
    /\ UNCHANGED <<outboxExists, outbox, stateFile, rows, uuids, run, crashes>>

\* ------------------------------------------------------------ specification
Producers ==
    \/ \E content \in ContentInputs, message_id \in IdInputs :
           Produce(content, message_id, "producer-script")
    \/ \E payload \in {CHOOSE p \in InvalidPayloads : TRUE} : AppendCall(payload)
    \/ \E line \in {BlankLine, GarbageLine} : RawWrite(line)

ApiProducers ==
    \/ \E payload \in PayloadInputs : AppendCall(payload)
    \/ \E line \in {BlankLine, GarbageLine} : RawWrite(line)

Steps == Fetch \/ Insert \/ Advance \/ Finish

\* the consumer script started to process, with or without --reset-offset
Process(names, sizes) ==
    \E consumer_name \in names, batch_size \in sizes, reset_offset \in BOOLEAN :
        Start(consumer_name, batch_size, reset_offset, FALSE)

\* the consumer script started to process, never given --reset-offset
Restart(names) ==
    \E consumer_name \in names, batch_size \in 0..MaxBatch :
        Start(consumer_name, batch_size, FALSE, FALSE)

\* the consumer script started with --status-only
Status(names) ==
    \E consumer_name \in names : Start(consumer_name, 0, FALSE, TRUE)

OffsetWriters ==
    \E consumer_name \in ConsumerNames, last_line \in OffsetInputs :
        SetOffsetCall(consumer_name, last_line)

Writers ==
    \/ \E payload \in PayloadInputs : InsertCall(payload)
    \/ OffsetWriters

Readers ==
    \/ \E consumer_name \in ConsumerNames : GetOffsetCall(consumer_name)
    \/ \E start_line \in 0..MaxLines : IterCall(start_line)

\* the producer and consumer scripts over one outbox: one consumer name, never
\* reset, the consumer process killed and started again at any point
Next == Producers \/ Restart(RunNames) \/ Status(RunNames) \/ Steps \/ Crash(FALSE)

Spec == Init /\ [][Next]_vars

\* the storage functions called one after another, no consumer process
NextApi == ApiProducers \/ Writers \/ Readers

SpecApi == Init /\ [][NextApi]_vars

\* consumers of several names over one outbox, and direct writes of the offset file
NextOffsets ==
    \/ \E message_id \in {" a"} : Produce(" x", message_id, "producer-script")
    \/ Process(ConsumerNames, {0, MaxBatch})
    \/ Steps
    \/ OffsetWriters

SpecOffsets == Init /\ [][NextOffsets]_vars

\* consumers of two names that read the whole outbox, with and without
\* --reset-offset, into one table
NextReplay ==
    \/ \E message_id \in {" a", ""} : Produce(" x", message_id, "producer-script")
    \/ Process(ConsumerNames, {0})
    \/ Steps

SpecReplay == Init /\ [][NextReplay]_vars

\* the viewer next to a producer and a consumer: the query arguments of /viewer
SortInputs == {"received_desc", "received_asc", "published_desc", "message_id_asc",
               "duplicate_first", "newest"}
FilterInputs == {"all", "only", "exclude", "any"}
SearchInputs == {"", " a", "U"}

\* a request that follows another request with no step in between sees the same
\* rows and is left out
NextViewer ==
    \/ \E message_id \in {" a", ""} : Produce(" x", message_id, "web-sender")
    \/ Start("consumer-stub", 0, FALSE, FALSE)
    \/ Steps
    \/ /\ ret.op # "fetch"
       /\ \E sort_key \in SortInputs, duplicate_filter \in FilterInputs, search \in SearchInputs :
              Viewer(sort_key, duplicate_filter, search)

SpecViewer == Init /\ [][NextViewer]_vars

\* create_payload called with every kind of content and message_id, next to a
\* consumer that processes what was appended
CreateContents == ContentInputs \cup {""}

NextCreate ==
    \/ \E content \in CreateContents, message_id \in IdInputs :
           CreateCall(content, message_id, "web-sender")
    \/ Restart(RunNames)
    \/ Steps

SpecCreate == Init /\ [][NextCreate]_vars

\* Valid payloads only, one consumer name run again and again and killed at
\* most MaxCrashes times.  A started process takes its next step unless it is
\* killed, and the script is started again after it ends.
LiveLines == Min(MaxLines, MaxRows - MaxCrashes)

LiveProduce ==
    /\ Len(outbox) < LiveLines
    /\ \E message_id \in {" a", ""} : Produce(" x", message_id, "producer-script")

NextLive == LiveProduce \/ Restart(RunNames) \/ Steps \/ Crash(TRUE)

LiveSpec ==
    /\ Init
    /\ [][NextLive]_vars
    /\ WF_vars(Restart(RunNames))
    /\ WF_vars(Fetch)
    /\ WF_vars(Insert)
    /\ WF_vars(Advance)
    /\ WF_vars(Finish)

\* A producer that appends whole lines, valid entries and blank lines, at any
\* point between the steps of the one consumer, which is never reset or killed
\* and is started again after it ends.
NextAppend ==
    \/ \E message_id \in {" a", ""} : Produce(" x", message_id, "producer-script")
    \/ RawWrite(BlankLine)
    \/ Restart(RunNames)
    \/ Steps

SpecAppend ==
    /\ Init
    /\ [][NextAppend]_vars
    /\ WF_vars(Restart(RunNames))
    /\ WF_vars(Fetch)
    /\ WF_vars(Insert)
    /\ WF_vars(Advance)
    /\ WF_vars(Finish)

\* =================================================================== claims
Offset(consumer_name) == GetConsumerOffset(stateFile, consumer_name)

\* the outbox lines that decode to an envelope
Entries == {ln \in 1..Len(outbox) : outbox[ln].kind = "json"}
HasRow(ln) == \E i \in 1..Len(rows) : rows[i].transport_id = outbox[ln].obj.transport_id
\* every line was written by append_outbox_message
OnlyAppended == Entries = 1..Len(outbox)
\* ... with a payload that insert_message_from_payload accepts
OnlyValid == OnlyAppended /\ \A ln \in Entries : InsertError(outbox[ln].obj.payload) = ""
MessageIds(table) == {table[i].message_id : i \in 1..Len(table)}
\* the rows the current run has inserted
RowsOfRun == SubSeq(rows, run.before + 1, Len(rows))
\* the entries strictly between two line numbers, in line order
RECURSIVE EntriesBetween(_, _)
EntriesBetween(lo, hi) ==
    IF lo + 1 >= hi THEN <<>>
    ELSE IF (lo + 1) \in Entries
         THEN <<outbox[lo + 1].obj>> \o EntriesBetween(lo + 1, hi)
         ELSE EntriesBetween(lo + 1, hi)
TransportIds(seq) == [i \in 1..Len(seq) |-> seq[i].transport_id]
LastEntryBetween(lo, hi) ==
    LET s == {ln \in Entries : lo < ln /\ ln < hi}
    IN IF s = {} THEN lo ELSE CHOOSE ln \in s : \A other \in s : other <= ln

\* C1: a stored row is flagged is_duplicate exactly when a row with a smaller
\* id carries the same message_id: the first insert of a message_id is not
\* flagged, every later one is, and distinct message_ids never flag each other.
C1_DuplicateIffEarlier ==
    \A i \in 1..Len(rows) :
        (rows[i].is_duplicate = 1) <=>
            (\E j \in 1..Len(rows) :
                rows[j].id < rows[i].id /\ rows[j].message_id = rows[i].message_id)

C1_Witness ==
    /\ Len(rows) = 3
    /\ rows[1].is_duplicate = 0
    /\ rows[2].is_duplicate = 0
    /\ rows[2].message_id # rows[1].message_id
    /\ rows[3].message_id = rows[1].message_id
    /\ rows[3].is_duplicate = 1

\* a run of the given consumer that started on an empty table at offset 0 with
\* batch-size 0, after the N lines of the outbox had all been appended with
\* valid payloads, has returned 0
FirstFullRunDone ==
    /\ run.pc = "done"
    /\ run.stopped = "exhausted"
    /\ run.batch_size = 0
    /\ run.before = 0
    /\ run.current_offset = 0
    /\ OnlyValid
    /\ Len(outbox) = run.len0

\* C2: after such a run over N valid appended payloads the table holds exactly
\* N rows in outbox line order, the persisted offset is N, the summary total
\* is N and the summary duplicates is N minus the number of distinct message_ids.
C2_FullRunResult ==
    FirstFullRunDone =>
        LET N == Len(outbox)
            summary == GetSummary(outboxExists, outbox, rows)
        IN /\ Len(rows) = N
           /\ \A i \in 1..N :
                 /\ rows[i].transport_id = outbox[i].obj.transport_id
                 /\ rows[i].message_id = Strip(outbox[i].obj.payload.message_id)
           /\ Offset(run.consumer_name) = N
           /\ run.processed = N
           /\ summary.db_total = N
           /\ summary.db_duplicates = N - Cardinality(MessageIds(rows))
           /\ run.duplicates = N - Cardinality(MessageIds(rows))

C2_Witness ==
    /\ FirstFullRunDone
    /\ Len(outbox) = 2
    /\ GetSummary(outboxExists, outbox, rows).db_total = 2
    /\ GetSummary(outboxExists, outbox, rows).db_duplicates = 1
    /\ Offset(run.consumer_name) = 2

\* the current run is a second run of the same consumer that has returned:
\* the run before it returned too, and from the start of that run up to now no
\* line was added to the outbox; this run was not given --reset-offset
SecondRunEnded ==
    /\ run.pc \in {"done", "failed"}
    /\ run.stopped # "status"
    /\ run.follows # ""
    /\ ~run.reset_offset
    /\ Len(outbox) = run.len0

SecondRunDidNothing ==
    /\ run.processed = 0
    /\ Len(rows) = run.before
    /\ Offset(run.consumer_name) = run.current_offset

\* C3 as claimed: the second of two runs with no append in between inserts no
\* row and leaves the offset unchanged, whatever the batch sizes of the two runs.
C3_SecondRunIdleAnyBatch == SecondRunEnded => SecondRunDidNothing

\* C3 as amended: the second run inserts no row and leaves the offset unchanged
\* when the first run did not stop at its batch-size cap (it ran out of lines
\* or failed), whatever the batch size of the second run.
C3_SecondRunIdle == (SecondRunEnded /\ run.follows # "break") => SecondRunDidNothing

C3_Witness ==
    /\ SecondRunEnded
    /\ run.follows = "exhausted"
    /\ run.pc = "done"
    /\ run.current_offset = 2
    /\ Len(rows) = 2

\* the current run, with batch-size 0, has ended on an undecodable line
FailedOnGarbage ==
    /\ run.pc = "failed"
    /\ run.stopped = "json"
    /\ run.batch_size = 0

\* C4: a batch-size 0 run that meets an undecodable line m stops there and
\* fails: it has inserted exactly the decodable entries between its starting
\* offset and m, nothing from line m on, and the persisted offset is the line
\* of the last entry it processed (the starting offset when there is none).
C4_StopsAtGarbage ==
    FailedOnGarbage =>
        LET m == run.line_number
        IN /\ outbox[m].kind = "garbage"
           /\ m > run.current_offset
           /\ TransportIds(RowsOfRun) = TransportIds(EntriesBetween(run.current_offset, m))
           /\ \A ln \in Entries : ln >= m =>
                 ~\E i \in 1..Len(RowsOfRun) :
                       RowsOfRun[i].transport_id = outbox[ln].obj.transport_id
           /\ Offset(run.consumer_name) = LastEntryBetween(run.current_offset, m)

C4_Witness ==
    /\ FailedOnGarbage
    /\ run.line_number = 2
    /\ Len(outbox) = 3
    /\ outbox[1].kind = "json"
    /\ outbox[3].kind = "json"
    /\ run.current_offset = 0
    /\ Len(RowsOfRun) = 1
    /\ Offset(run.consumer_name) = 1

\* the entries beyond the persisted offset of the one consumer that have a row
AheadOfOffset(consumer_name) == {ln \in Entries : ln > Offset(consumer_name) /\ HasRow(ln)}

CrashSafe(consumer_name) ==
    /\ \A ln \in Entries : ln <= Offset(consumer_name) => HasRow(ln)
    /\ Cardinality(AheadOfOffset(consumer_name)) <= 1

\* a step in which the running consumer process is killed
CrashStep == run.pc \in {"fetch", "insert", "advance", "finish"} /\ run'.pc = "idle"

Delivered(ln) ==
    /\ \E i \in 1..Len(rows) :
          /\ rows[i].transport_id = outbox[ln].obj.transport_id
          /\ rows[i].message_id = outbox[ln].obj.payload.message_id
    /\ \A c \in RunNames : Offset(c) >= ln

C6_AtLeastOnce ==
    \A ln \in 1..MaxLines : (Len(outbox) >= ln) ~> (Len(outbox) >= ln /\ Delivered(ln))

\* everything delivered although the process was killed once on the way
C6_Witness ==
    /\ crashes = 1
    /\ Len(outbox) = LiveLines
    /\ \A ln \in 1..Len(outbox) : Delivered(ln)

\* what iter_outbox_from_line(k) has to yield on a file made of appended lines
ExpectedEntries(k) ==
    [i \in 1..Max(0, Len(outbox) - k) |-> [line_number |-> k + i, envelope |-> outbox[k + i].obj]]

\* C7: on an outbox written by append_outbox_message only, iter_outbox_from_line(k)
\* yields exactly the entries with line number above k, in line order, numbered
\* k+1..N (all N of them for k = 0); and an append puts the envelope it returns
\* on a new last line and changes no earlier line.
C7_IterAfterAppends ==
    /\ []((ret.op = "iter" /\ OnlyAppended) =>
             /\ ret.result.error = 0
             /\ ret.result.entries = ExpectedEntries(ret.start_line))
    /\ [][/\ Len(outbox') >= Len(outbox)
          /\ SubSeq(outbox', 1, Len(outbox)) = outbox
          /\ ret'.op = "append" =>
                /\ Len(outbox') = Len(outbox) + 1
                /\ outbox'[Len(outbox')] = [kind |-> "json", obj |-> ret'.envelope]]_vars

C7_Witness ==
    /\ ret.op = "iter"
    /\ OnlyAppended
    /\ Len(outbox) = 3
    /\ ret.start_line = 1
    /\ Len(ret.result.entries) = 2
    /\ ret.result.entries[1].line_number = 2

\* get_consumer_offset(name) was called right after set_consumer_offset(name, k)
GetAfterSet ==
    /\ ret.op = "get"
    /\ ret.after.op = "set"
    /\ ret.after.consumer_name = ret.consumer_name

\* C8 as claimed: get right after set(name, k) returns k, for any integer k.
C8_GetReturnsK == GetAfterSet => ret.value = ret.after.last_line

\* C8 as amended: get right after set(name, k) returns k when k >= 0 and 0
\* when k is negative.
C8_GetReturnsClamped ==
    GetAfterSet => ret.value = (IF ret.after.last_line >= 0 THEN ret.after.last_line ELSE 0)

C8_Witness ==
    /\ GetAfterSet
    /\ ret.after.last_line = -1
    /\ ret.value = 0
    /\ stateFile.kind = "json"

\* the consumer name whose offset the step writes, if it writes one
Written == IF ret'.op = "set" THEN ret'.consumer_name ELSE run'.consumer_name

\* C9: a step that sets the offset of one consumer name (a direct set, the
\* advancement after an insert, the reset at the start of a run) leaves the
\* value get_consumer_offset returns for every other name unchanged.
C9_OtherOffsetsKept ==
    [][\A n \in ConsumerNames :
          n # Written => GetConsumerOffset(stateFile', n) = Offset(n)]_vars

\* a run has advanced its own offset while another name holds an offset
C9_Witness ==
    /\ run.pc = "fetch"
    /\ run.processed = 1
    /\ Offset(run.consumer_name) = run.latest_offset
    /\ \E n \in ConsumerNames : n # run.consumer_name /\ Offset(n) = 2

\* a step that sets an offset explicitly: a direct set_consumer_offset, or the
\* start of a run given --reset-offset
ExplicitSet ==
    \/ ret'.op = "set"
    \/ run.pc \in {"idle", "done", "failed"} /\ run' # run /\ run'.reset_offset

\* C10: every persisted offset is non-negative, and a step of a run or of a
\* producer that is no explicit reset never lowers a consumer's offset.
C10_OffsetsNonNegativeMonotone ==
    /\ [](\A n \in ConsumerNames :
             /\ Offset(n) >= 0
             /\ n \in DOMAIN LoadConsumerStateMap(stateFile) => LoadConsumerStateMap(stateFile)[n] >= 0)
    /\ [][~ExplicitSet =>
             \A n \in ConsumerNames : GetConsumerOffset(stateFile', n) >= Offset(n)]_vars

\* set_consumer_offset was called with a negative line while a run had advanced
C10_Witness ==
    /\ ret.op = "set"
    /\ ret.last_line = -1
    /\ Offset(ret.consumer_name) = 0
    /\ \E n \in ConsumerNames : Offset(n) = 2 /\ run.consumer_name = n /\ run.processed = 2

\* ------------------------------------------------------------------ C11
\* a step of the consumer that completed insert_message_from_payload
InsertSucceeded == run.pc = "insert" /\ run'.pc = "advance"

\* C11: every successful insert_message_from_payload of a run adds exactly one
\* row, whose id is greater than every id already stored, also when the
\* message_id is already stored, and every row stored before is kept as it was,
\* its is_duplicate flag included; no other step changes the rows.
C11_InsertAppendsOneRow ==
    [][/\ InsertSucceeded =>
            /\ Len(rows') = Len(rows) + 1
            /\ \A i \in 1..Len(rows) : rows'[Len(rows')].id > rows[i].id
            /\ rows'[Len(rows')].transport_id = run.envelope.transport_id
       /\ rows' # rows =>
            /\ InsertSucceeded
            /\ SubSeq(rows', 1, Len(rows)) = rows]_vars

\* a message_id was stored a second time: two rows, the first still unflagged
C11_Witness ==
    /\ Len(rows) >= 2
    /\ rows[2].message_id = rows[1].message_id
    /\ rows[2].id > rows[1].id
    /\ rows[1].is_duplicate = 0
    /\ rows[2].is_duplicate = 1
    /\ run.pc = "advance"

\* ------------------------------------------------------------------ C12
\* C12: in every reachable state get_summary reports as db_total the number of
\* stored rows and as db_duplicates the number of rows flagged is_duplicate,
\* and the total a finished run printed is the number of rows stored then.
C12_SummaryCounts ==
    LET summary == GetSummary(outboxExists, outbox, rows)
    IN /\ summary.db_total = Cardinality({rows[i].id : i \in 1..Len(rows)})
       /\ summary.db_total = Cardinality(DOMAIN rows)
       /\ summary.db_duplicates = Cardinality({i \in 1..Len(rows) : rows[i].is_duplicate = 1})
       /\ run.pc = "done" => run.after = Cardinality(DOMAIN rows)

\* three rows stored, one of them flagged, after a run that ended
C12_Witness ==
    /\ Len(rows) = 3
    /\ Cardinality({i \in 1..Len(rows) : rows[i].is_duplicate = 1}) = 1
    /\ Cardinality({rows[i].message_id : i \in 1..Len(rows)}) = 2
    /\ run.pc = "done"
    /\ run.after = 3

\* ------------------------------------------------------------------ C13
Blank(s) == Strip(s) = ""

\* a step that leaves the outbox, the offset store and the message store alone
NoDurableWrite == UNCHANGED <<outboxExists, outbox, stateFile, rows>>

\* C13 as stated: create_payload given a content or a message_id that is empty
\* or whitespace-only fails with a validation error and writes nothing durable.
C13_BlankAlwaysFails ==
    [][ret'.op = "create" /\ (Blank(ret'.content) \/ Blank(ret'.message_id)) =>
           ret'.error # "" /\ NoDurableWrite]_vars

\* C13 amended: create_payload given an empty or whitespace-only content, or a
\* message_id that is not empty but whitespace-only, fails with a validation
\* error and writes nothing durable; an empty message_id counts as absent, a
\* generated identifier takes its place and the call succeeds.
C13_BlankFails ==
    [][ret'.op = "create" =>
           /\ Blank(ret'.content) \/ (ret'.message_id # "" /\ Blank(ret'.message_id)) =>
                  ret'.error # "" /\ NoDurableWrite
           /\ ~Blank(ret'.content) /\ ret'.message_id = "" =>
                  /\ ret'.error = ""
                  /\ ~Blank(ret'.payload.message_id)
                  /\ Len(outbox') = Len(outbox) + 1
                  /\ outbox'[Len(outbox')].obj.payload = ret'.payload]_vars

\* a whitespace-only message_id was refused while lines, an offset and a row
\* were already stored
C13_Witness ==
    /\ ret.op = "create"
    /\ ret.message_id = " "
    /\ ret.content = " x"
    /\ ret.error = "message_id"
    /\ Len(outbox) = 2
    /\ Len(rows) = 1
    /\ Offset("consumer-stub") = 1

\* ------------------------------------------------------------------ C14
\* the required fields a payload lacks: absent, empty or whitespace-only
MissingFields(payload) ==
    {f \in {"message_id", "content"} :
        (f = "message_id" /\ Blank(payload.message_id)) \/ (f = "content" /\ Blank(payload.content))}

\* C14: insert_message_from_payload given a payload whose message_id or content
\* is missing, empty or whitespace-only fails with an error that names a field
\* the payload lacks and leaves the stored rows as they were; and in every
\* reachable state every row holds a non-empty, trimmed message_id and content.
C14_InvalidPayloadRefused ==
    /\ [][ret'.op = "insert" /\ calls' = calls + 1 /\ MissingFields(ret'.payload) # {} =>
              /\ ret'.error \in MissingFields(ret'.payload)
              /\ rows' = rows]_vars
    /\ [](\A i \in 1..Len(rows) :
              /\ rows[i].message_id # ""
              /\ rows[i].message_content # ""
              /\ Strip(rows[i].message_id) = rows[i].message_id
              /\ Strip(rows[i].message_content) = rows[i].message_content)

\* a payload with a whitespace-only message_id was refused after a row whose
\* fields needed trimming had been stored
C14_Witness ==
    /\ ret.op = "insert"
    /\ ret.payload.message_id = " "
    /\ ret.error = "message_id"
    /\ Len(rows) = 1
    /\ rows[1].message_id = "a"
    /\ calls = 2

\* ------------------------------------------------------------------ C15
\* the line numbers of the entries strictly between two line numbers, ascending
RECURSIVE EntryLinesBetween(_, _)
EntryLinesBetween(lo, hi) ==
    IF lo + 1 >= hi THEN <<>>
    ELSE IF (lo + 1) \in Entries
         THEN <<lo + 1>> \o EntryLinesBetween(lo + 1, hi)
         ELSE EntryLinesBetween(lo + 1, hi)

\* the lines that were pending when the current run started
PendingLines == EntryLinesBetween(run.current_offset, run.len0 + 1)

\* a run that processes has ended; nothing was appended since it started, and
\* every line after its starting offset is blank or a decodable entry with a
\* payload insert_message_from_payload accepts
RunOverDecodableEnded ==
    /\ run.pc \in {"done", "failed"}
    /\ run.stopped # "status"
    /\ Len(outbox) = run.len0
    /\ \A ln \in (run.current_offset + 1)..Len(outbox) :
           \/ outbox[ln] = BlankLine
           \/ ln \in Entries /\ InsertError(outbox[ln].obj.payload) = ""

\* C15: a run with batch-size b > 0 over p pending decodable entries processes
\* exactly min(b, p) of them, the first ones in line order, and leaves the
\* offset at the line number of the last one processed; a run with batch-size
\* 0 processes all p of them.
C15_BatchProcessesMin ==
    RunOverDecodableEnded =>
        LET p == Len(PendingLines)
            k == IF run.batch_size = 0 THEN p ELSE Min(run.batch_size, p)
        IN /\ run.pc = "done"
           /\ run.processed = k
           /\ Len(RowsOfRun) = k
           /\ \A i \in 1..k : RowsOfRun[i].transport_id = outbox[PendingLines[i]].obj.transport_id
           /\ Offset(run.consumer_name) = IF k = 0 THEN run.current_offset ELSE PendingLines[k]
           /\ run.latest_offset = Offset(run.consumer_name)

\* a run with batch-size 1 that started at offset 1 with two entries pending
\* has processed the one at line 2 and stopped
C15_Witness ==
    /\ RunOverDecodableEnded
    /\ run.batch_size = 1
    /\ run.current_offset = 1
    /\ PendingLines = <<2, 3>>
    /\ run.processed = 1
    /\ run.stopped = "break"
    /\ Offset(run.consumer_name) = 2

\* ------------------------------------------------------------------ C16
\* C16: when a run has failed on a record of the outbox, what it printed holds
\* the failure and the count of the entries it processed before failing.
C16_FailureReportHasCount ==
    run.pc = "failed" =>
        /\ run.report.failure # ""
        /\ run.report.count = run.processed

\* ------------------------------------------------------------------ C17
\* the ids of the rows in a list fetch_messages returned
IdsOf(messages) == {messages[k].id : k \in 1..Len(messages)}

\* the ids of the stored rows in which the stripped search term occurs
MatchingIds(search) ==
    {rows[i].id : i \in {j \in 1..Len(rows) :
        \/ Strip(search) = ""
        \/ \E text \in {rows[j].message_id, rows[j].message_content, rows[j].source} :
               Like(text, Strip(search))}}

FlaggedIds == {rows[i].id : i \in {j \in 1..Len(rows) : rows[j].is_duplicate = 1}}

\* C17: for every sort key and search term, fetch_messages with filter 'only'
\* returns exactly the matching rows flagged is_duplicate, with 'exclude' exactly
\* the matching rows not flagged, with 'all' every matching row, each row once;
\* for the sort key and search term of a request the 'only' and 'exclude' lists
\* are disjoint and together hold the rows of the 'all' list; and a viewer
\* request leaves the stored rows as they were.
C17_FilterPartition ==
    /\ [](ret.op = "fetch" =>
              LET all == IdsOf(FetchMessages(rows, ret.sort_key, "all", ret.search))
                  only == IdsOf(FetchMessages(rows, ret.sort_key, "only", ret.search))
                  exclude == IdsOf(FetchMessages(rows, ret.sort_key, "exclude", ret.search))
              IN /\ IdsOf(ret.messages) =
                       IF ret.duplicate_filter = "only" THEN MatchingIds(ret.search) \cap FlaggedIds
                       ELSE IF ret.duplicate_filter = "exclude" THEN MatchingIds(ret.search) \ FlaggedIds
                       ELSE MatchingIds(ret.search)
                 /\ Len(ret.messages) = Cardinality(IdsOf(ret.messages))
                 /\ \A k \in 1..Len(ret.messages) :
                        ret.messages[k].is_duplicate = (ret.messages[k].id \in FlaggedIds)
                 /\ only \cap exclude = {}
                 /\ only \cup exclude = all
                 /\ all = MatchingIds(ret.search))
    /\ [][ret'.op = "fetch" => rows' = rows]_vars

\* the viewer asked for the rows without duplicates that match "a", duplicates
\* first, while three rows were stored: one flagged, one that does not match
C17_Witness ==
    /\ ret.op = "fetch"
    /\ ret.duplicate_filter = "exclude"
    /\ ret.search = "a"
    /\ ret.sort_key = "duplicate_first"
    /\ Len(rows) = 3
    /\ Cardinality(FlaggedIds) = 1
    /\ Cardinality(MatchingIds("a")) = 2
    /\ Len(ret.messages) = 1

\* ------------------------------------------------------------------ C18
\* the lines that cannot be processed: not blank and not decodable, or decodable
\* with a payload that insert_message_from_payload refuses
BadLines ==
    {m \in 1..Len(outbox) :
        \/ outbox[m].kind = "garbage"
        \/ outbox[m].kind = "json" /\ InsertError(outbox[m].obj.payload) # ""}

\* no row for line m or a later line, and every consumer's offset below m
BlockedAt(m) ==
    /\ \A ln \in Entries : ln >= m => ~HasRow(ln)
    /\ \A n \in ConsumerNames : Offset(n) < m

\* a run that processes has ended; line m was in the outbox and above the
\* run's offset when it started
RunBelowEnded(m) ==
    /\ run.pc \in {"done", "failed"}
    /\ run.stopped # "status"
    /\ m <= run.len0
    /\ run.current_offset < m

\* C18 as stated: a line m that cannot be processed blocks consumption for good:
\* no row is ever stored for line m or a later line, no offset reaches m, and
\* every run that starts below m ends in failure.
C18_BlockedRunsAlwaysFail ==
    \A m \in BadLines :
        /\ BlockedAt(m)
        /\ RunBelowEnded(m) => run.pc = "failed"

\* C18 amended: a line m that cannot be processed blocks consumption for good:
\* no row is ever stored for line m or a later line and no offset reaches m. A
\* run that starts below m ends in failure at a line that cannot be processed,
\* at or before m, unless it has a batch-size cap and stops at that cap on a
\* decodable entry at or before m; a run with batch-size 0 always fails.
C18_BlockedRunsFailOrStopAtCap ==
    \A m \in BadLines :
        /\ BlockedAt(m)
        /\ RunBelowEnded(m) =>
              \/ /\ run.pc = "failed"
                 /\ run.pos \in BadLines
                 /\ run.pos <= m
                 /\ run.report.failure # ""
              \/ /\ run.pc = "done"
                 /\ run.stopped = "break"
                 /\ run.batch_size > 0
                 /\ run.processed = run.batch_size
                 /\ run.latest_offset < m

\* a run that started at offset 1 failed on the refused payload of line 2,
\* with a valid entry waiting at line 3
C18_Witness ==
    /\ Len(outbox) = 3
    /\ BadLines = {2}
    /\ outbox[2].kind = "json"
    /\ Entries = {1, 2, 3}
    /\ run.pc = "failed"
    /\ run.current_offset = 1
    /\ run.len0 = 3
    /\ Offset(run.consumer_name) = 1
    /\ Len(rows) = 1

\* ------------------------------------------------------------------ C19
\* the non-blank lines that were above the run's offset when it started, ascending
RECURSIVE NonBlankLinesBetween(_, _)
NonBlankLinesBetween(lo, hi) ==
    IF lo + 1 >= hi THEN <<>>
    ELSE IF outbox[lo + 1] # BlankLine
         THEN <<lo + 1>> \o NonBlankLinesBetween(lo + 1, hi)
         ELSE NonBlankLinesBetween(lo + 1, hi)

\* a run with a batch-size cap b > 0 has ended; when it started at least b
\* entries were pending and the first b of them were decodable and valid
CappedRunOverValidEnded ==
    LET pending == NonBlankLinesBetween(run.current_offset, run.len0 + 1)
    IN /\ run.pc \in {"done", "failed"}
       /\ run.stopped # "status"
       /\ run.batch_size > 0
       /\ Len(pending) >= run.batch_size
       /\ \A i \in 1..run.batch_size :
              /\ pending[i] \in Entries
              /\ InsertError(outbox[pending[i]].obj.payload) = ""

\* C19: a run with batch-size b > 0 whose first b pending entries are decodable
\* and valid ends successfully with exactly b entries processed, whatever the
\* lines after the b-th pending entry hold.
C19_CapIgnoresLaterLines ==
    CappedRunOverValidEnded =>
        /\ run.pc = "done"
        /\ run.processed = run.batch_size

\* ------------------------------------------------------------------ C20
\* the rows hold `copies` full copies of the outbox, in line order
HoldsCopies(copies) ==
    LET N == Len(outbox)
    IN /\ Len(rows) >= copies * N
       /\ \A c \in 0..(copies - 1), i \in 1..N :
              /\ rows[c * N + i].transport_id = outbox[i].obj.transport_id
              /\ rows[c * N + i].message_id = Strip(outbox[i].obj.payload.message_id)

\* a batch-size 0 run that started at offset 0 (after --reset-offset, or under
\* a name with no offset yet) has ended; the outbox of N >= 1 valid entries had
\* been consumed in full before, once or several times, and has not changed
ReplayDone ==
    /\ run.pc = "done"
    /\ run.stopped = "exhausted"
    /\ run.batch_size = 0
    /\ run.current_offset = 0
    /\ OnlyValid
    /\ Len(outbox) >= 1
    /\ Len(outbox) = run.len0
    /\ run.before >= Len(outbox)
    /\ run.before % Len(outbox) = 0
    /\ HoldsCopies(run.before \div Len(outbox))

\* C20: after an outbox of N valid entries was consumed in full, a batch-size 0
\* run from offset 0 over the unchanged outbox, by the same consumer after a
\* reset or by a consumer of another name, stores all N entries again as N new
\* rows in line order, each flagged is_duplicate, and ends with its offset at
\* N; the rows stored before stay as they were, the first copy unflagged where
\* its message_ids are distinct.
C20_ReplayDuplicatesAll ==
    /\ [](ReplayDone =>
              LET N == Len(outbox)
              IN /\ Len(rows) = run.before + N
                 /\ HoldsCopies((run.before \div N) + 1)
                 /\ \A i \in 1..N :
                        /\ rows[run.before + i].is_duplicate = 1
                        /\ \A j \in 1..run.before : rows[run.before + i].id > rows[j].id
                 /\ \A i \in 1..N :
                        rows[i].is_duplicate = 1 <=>
                            \E j \in 1..(i - 1) : rows[j].message_id = rows[i].message_id
                 /\ Offset(run.consumer_name) = N
                 /\ run.processed = N
                 /\ run.duplicates = N)
    /\ [][Len(rows') >= Len(rows) /\ SubSeq(rows', 1, Len(rows)) = rows]_vars

\* a consumer that had consumed an outbox of two entries with distinct
\* message_ids was reset and has consumed it again
C20_Witness ==
    /\ ReplayDone
    /\ run.reset_offset
    /\ Len(outbox) = 2
    /\ run.before = 2
    /\ Len(rows) = 4
    /\ rows[1].message_id # rows[2].message_id
    /\ rows[2].is_duplicate = 0
    /\ Offset(run.consumer_name) = 2

\* ------------------------------------------------------------------ C21
\* the line of the entry a row was inserted from, 0 when there is none
LineOfRow(i) ==
    LET lines == {ln \in Entries : outbox[ln].obj.transport_id = rows[i].transport_id}
    IN IF lines = {} THEN 0 ELSE CHOOSE ln \in lines : TRUE

\* the line of the entry inserted last, 0 while the table is empty
LastInsertedLine == IF Len(rows) = 0 THEN 0 ELSE LineOfRow(Len(rows))

\* the rows are the first entries of the outbox, one row each, in line order:
\* none skipped, none inserted twice
InsertedOnceInOrder ==
    /\ Len(rows) <= Cardinality(Entries)
    /\ TransportIds(rows) =
          TransportIds(SubSeq(EntriesBetween(0, Len(outbox) + 1), 1, Len(rows)))

\* the consumer has inserted a row and not yet written its offset
BetweenInsertAndOffset == run.pc = "advance"

\* C21 as stated: with whole lines appended between the steps of the consumer,
\* each entry is inserted once, in line order, none skipped, and the persisted
\* offset is at every moment the line of the entry inserted last.
C21_OnceInOrderOffsetAlways ==
    /\ InsertedOnceInOrder
    /\ \A c \in RunNames : Offset(c) = LastInsertedLine

\* C21 amended: with whole lines appended between the steps of the consumer,
\* each entry is eventually inserted, once, in line order, none skipped; the
\* persisted offset is the line of the entry inserted last except between an
\* insert and the write of its offset, where it still is the line of the entry
\* inserted before (0 when there is none).
C21_OnceInOrderOffsetFollows ==
    /\ [](/\ InsertedOnceInOrder
          /\ \A c \in RunNames :
                IF BetweenInsertAndOffset
                THEN /\ LastInsertedLine = run.line_number
                     /\ Offset(c) < LastInsertedLine
                     /\ Offset(c) = IF Len(rows) = 1 THEN 0 ELSE LineOfRow(Len(rows) - 1)
                ELSE Offset(c) = LastInsertedLine)
    /\ \A ln \in 1..MaxLines :
          (ln \in Entries) ~>
              (/\ Cardinality({i \in 1..Len(rows) : LineOfRow(i) = ln}) = 1
               /\ \A c \in RunNames : Offset(c) >= ln)

\* a run that started when the outbox held one line has processed three
\* entries: two of them were appended while it ran
C21_Witness ==
    /\ run.pc = "fetch"
    /\ run.len0 = 1
    /\ run.current_offset = 0
    /\ run.processed = 3
    /\ Len(rows) = 3
    /\ Entries = {1, 2, 3}
    /\ Offset(run.consumer_name) = 3

====
